---- MODULE Spec2Model ----
(***************************************************************************)
(* A model of taskscheduler (src/src/taskscheduler/core.py, __main__.py):  *)
(* the command builders of PythonTask, the mutation workflow of one named  *)
(* task against the host scheduler, and the `add` command of the CLI.      *)
(*                                                                         *)
(* Text is a sequence of symbols.  A caller-supplied string is a sequence  *)
(* of one-character strings over Chars; the fixed text of an f-string      *)
(* template is one symbol holding that text (no template holds a double    *)
(* quote); digits, ":" and "-" are the symbols strftime produces.          *)
(***************************************************************************)
EXTENDS Integers, Sequences, FiniteSets, TLC

\* ------------------------------------------------------------------ bounds
\* Longest caller-supplied string drawn for a text field.
MaxLen == 2
\* Longest list drawn for `args` and for the weekday list of `on`.
MaxList == 1

\* ------------------------------------------------------------------- text
DQ == "\""
Chars == {"a", DQ, " ", ";"}
Digits == <<"0", "1", "2", "3", "4", "5", "6", "7", "8", "9">>

RECURSIVE Strs(_)
Strs(n) == IF n = 0 THEN {<<>>}
           ELSE LET S == Strs(n - 1)
                IN  S \cup {Append(s, c) : s \in {t \in S : Len(t) = n - 1}, c \in Chars}

RECURSIVE Lists(_, _)
Lists(E, n) == IF n = 0 THEN {<<>>}
               ELSE LET S == Lists(E, n - 1)
                    IN  S \cup {Append(s, e) : s \in {t \in S : Len(t) = n - 1}, e \in E}

\* value.replace('"', '""')
RECURSIVE ReplaceQuote(_)
ReplaceQuote(value) ==
    IF value = <<>> THEN <<>>
    ELSE (IF Head(value) = DQ THEN <<DQ, DQ>> ELSE <<Head(value)>>)
         \o ReplaceQuote(Tail(value))

\* Mutant of quote_ps_arg: embedded double quotes are not doubled.
quote_ps_arg_NoDoubling(value) == <<DQ>> \o value \o <<DQ>>

\* _quote_ps_arg: '"' + value.replace('"', '""') + '"'
quote_ps_arg(value) == <<DQ>> \o ReplaceQuote(value) \o <<DQ>>

\* sep.join(parts)
RECURSIVE Join(_, _)
Join(sep, parts) ==
    IF parts = <<>> THEN <<>>
    ELSE IF Len(parts) = 1 THEN parts[1]
    ELSE parts[1] \o sep \o Join(sep, Tail(parts))

\* The working directory Path.resolve() makes a relative path absolute with.
Cwd == <<"C:\\work">>

\* _to_path_str: str(Path(p).expanduser().resolve()).  The paths drawn hold
\* no separator, "~" or "." segment, so each is a relative path of one
\* segment (or empty, which is the working directory itself).
to_path_str(p) == IF p = <<>> THEN Cwd ELSE Cwd \o <<"\\">> \o p

\* strftime's zero-padded two-digit field (%H, %M, %m, %d).
Pad2(n) == <<Digits[((n \div 10) % 10) + 1], Digits[(n % 10) + 1]>>
\* strftime's %Y for a four-digit year.
Pad4(n) == Pad2(n \div 100) \o Pad2(n % 100)

\* time.strftime("%H:%M")
FmtTime(t) == Pad2(t.h) \o <<":">> \o Pad2(t.m)
\* date.strftime('%Y-%m-%d')
FmtDate(d) == Pad4(d.y) \o <<"-">> \o Pad2(d.m) \o <<"-">> \o Pad2(d.d)

\* ------------------------------------------------------------- task values
None == [some |-> FALSE]
Some(v) == [some |-> TRUE, v |-> v]
\* Python truthiness of an Optional[str] / Optional[Sequence]: None and the
\* empty value are false.
Truthy(o) == o.some /\ o.v # <<>>

TimeAt(h, m) == [kind |-> "time", h |-> h, m |-> m]
StrAt(s) == [kind |-> "str", s |-> s]
NoOn == [kind |-> "none"]
DateOn(y, m, d) == [kind |-> "date", y |-> y, m |-> m, d |-> d]
DaysOn(l) == [kind |-> "days", days |-> l]

\* ---------------------------------------------------------------- builders
\* PythonTask._build_action
build_action(t) ==
    LET py == to_path_str(t.python)
        script == to_path_str(t.script)
        arg_parts == <<script>> \o (IF Truthy(t.args) THEN t.args.v ELSE <<>>)
        ps_args == Join(<<" ">>, [i \in 1..Len(arg_parts) |-> quote_ps_arg(arg_parts[i])])
    IN  <<"$action = New-ScheduledTaskAction -Execute ">> \o quote_ps_arg(py)
        \o <<" -Argument ">> \o ps_args

\* PythonTask._build_trigger, lines 92-95: the time of day as text.
at_str(t) == IF t.at.kind = "time" THEN FmtTime(t.at) ELSE t.at.s

\* Mutant of weekly_days: the default is taken only when `on` is no day list,
\* not when the joined list is empty.
weekly_days_NoEmptyCheck(t, clock) ==
    IF t.on.kind = "days" THEN Join(<<",">>, t.on.days) ELSE <<clock.wd>>

\* PythonTask._build_trigger, lines 110-116: the weekday list of a Weekly task.
weekly_days(t, clock) ==
    LET days == IF t.on.kind = "days" /\ t.on.days # <<>>
                THEN Some(Join(<<",">>, t.on.days))
                ELSE None
    IN  IF Truthy(days) THEN days.v ELSE <<clock.wd>>

\* The frequency branch _build_trigger takes: anything that is neither
\* "Once" nor "Weekly" falls to the final else.
trigger_branch(freq) ==
    IF freq = "Once" THEN "Once"
    ELSE IF freq = "Weekly" THEN "Weekly"
    ELSE "Daily"

\* Mutant of build_trigger: a Once task always runs today, its date is not
\* looked at.
build_trigger_AlwaysToday(t, clock) ==
    LET br == trigger_branch(t.frequency)
    IN  IF br = "Once"
        THEN <<"$trigger = New-ScheduledTaskTrigger -Once -At (Get-Date ">>
             \o quote_ps_arg(FmtDate(clock.date) \o <<" ">> \o at_str(t)) \o <<")">>
        ELSE IF br = "Weekly"
        THEN <<"$trigger = New-ScheduledTaskTrigger -Weekly -DaysOfWeek ">>
             \o weekly_days(t, clock) \o <<" -At ">> \o at_str(t)
        ELSE <<"$trigger = New-ScheduledTaskTrigger -Daily -At ">> \o at_str(t)

\* PythonTask._build_trigger
build_trigger(t, clock) ==
    LET br == trigger_branch(t.frequency)
    IN  IF br = "Once"
        THEN LET run_date == IF t.on.kind = "date" THEN t.on ELSE clock.date
                 dt_str == FmtDate(run_date) \o <<" ">> \o at_str(t)
             IN  <<"$trigger = New-ScheduledTaskTrigger -Once -At (Get-Date ">>
                 \o quote_ps_arg(dt_str) \o <<")">>
        ELSE IF br = "Weekly"
        THEN <<"$trigger = New-ScheduledTaskTrigger -Weekly -DaysOfWeek ">>
             \o weekly_days(t, clock) \o <<" -At ">> \o at_str(t)
        ELSE <<"$trigger = New-ScheduledTaskTrigger -Daily -At ">> \o at_str(t)

\* Mutant of register_tail: the user-only branch is missing.
register_tail_NoUserOnly(t) ==
    IF Truthy(t.user) /\ Truthy(t.password)
    THEN <<"Register-ScheduledTask -TaskName $taskName -Description $description -Action $action -Trigger $trigger -User ">>
         \o quote_ps_arg(t.user.v) \o <<" -Password ">> \o quote_ps_arg(t.password.v)
         \o <<" | Out-Null">>
    ELSE <<"Register-ScheduledTask -TaskName $taskName -Description $description -Action $action -Trigger $trigger | Out-Null">>

\* PythonTask._build_register, lines 131-151: the run-as credentials.
register_tail(t) ==
    IF Truthy(t.user) /\ Truthy(t.password)
    THEN <<"Register-ScheduledTask -TaskName $taskName -Description $description -Action $action -Trigger $trigger -User ">>
         \o quote_ps_arg(t.user.v) \o <<" -Password ">> \o quote_ps_arg(t.password.v)
         \o <<" | Out-Null">>
    ELSE IF Truthy(t.user)
    THEN <<"Register-ScheduledTask -TaskName $taskName -Description $description -Action $action -Trigger $trigger -User ">>
         \o quote_ps_arg(t.user.v) \o <<" | Out-Null">>
    ELSE <<"Register-ScheduledTask -TaskName $taskName -Description $description -Action $action -Trigger $trigger | Out-Null">>

\* PythonTask._build_register
build_register(t, clock) ==
    <<"$description = ">> \o quote_ps_arg(t.description)
    \o <<"; $taskName = ">> \o quote_ps_arg(t.name) \o <<"; ">>
    \o build_action(t) \o <<"; ">> \o build_trigger(t, clock) \o <<"; ">>
    \o register_tail(t)

\* The scripts of exists, delete, run, enable, disable and stop.
exists_script(t) ==
    <<"$ErrorActionPreference='SilentlyContinue'; Get-ScheduledTask -TaskName ">>
    \o quote_ps_arg(t.name) \o <<" | Out-Null; if ($?) { exit 0 } else { exit 1 }">>
unregister_script(t) ==
    <<"Unregister-ScheduledTask -TaskName ">> \o quote_ps_arg(t.name) \o <<" -Confirm:$false">>
start_script(t) == <<"Start-ScheduledTask -TaskName ">> \o quote_ps_arg(t.name)
enable_script(t) == <<"Enable-ScheduledTask -TaskName ">> \o quote_ps_arg(t.name)
disable_script(t) == <<"Disable-ScheduledTask -TaskName ">> \o quote_ps_arg(t.name)
stop_script(t) ==
    <<"Stop-ScheduledTask -TaskName ">> \o quote_ps_arg(t.name) \o <<" -Confirm:$false">>
\* list_tasks' enumeration script: fixed text, nothing interpolated.
list_script == <<"$tasks = Get-ScheduledTask ... $result | ConvertTo-Json -Depth 8">>

\* __main__.parse_time: datetime.strptime(value, "%H:%M").time().  %H takes
\* one or two digits up to 23, %M one or two digits up to 59, and nothing
\* may precede or follow; None stands for the ValueError.
DigitVal(c) == CHOOSE n \in 0..9 : Digits[n + 1] = c
IsDigit(c) == \E n \in 1..10 : Digits[n] = c
NumVal(s) == IF Len(s) = 1 THEN DigitVal(s[1]) ELSE 10 * DigitVal(s[1]) + DigitVal(s[2])
IsNum(s) == Len(s) \in {1, 2} /\ \A i \in 1..Len(s) : IsDigit(s[i])
parse_time(value) ==
    LET colons == {i \in 1..Len(value) : value[i] = ":"}
    IN  IF Cardinality(colons) # 1 THEN None
        ELSE LET c == CHOOSE i \in colons : TRUE
                 hh == SubSeq(value, 1, c - 1)
                 mm == SubSeq(value, c + 1, Len(value))
             IN  IF IsNum(hh) /\ IsNum(mm) /\ NumVal(hh) <= 23 /\ NumVal(mm) <= 59
                 THEN Some(TimeAt(NumVal(hh), NumVal(mm)))
                 ELSE None

\* ------------------------------------------------- list_tasks: pure parts
\* JSON values of the enumeration payload as json.loads returns them: an
\* int, a str (a sequence of characters), or None.
JInt(n) == [t |-> "int", v |-> n]
JStr(s) == [t |-> "str", v |-> s]
JNull == [t |-> "null", v |-> <<>>]

\* str.lower() on the ASCII letters.
UpperChars == <<"A", "B", "C", "D", "E", "F", "G", "H", "I", "J", "K", "L", "M", "N", "O", "P", "Q", "R", "S", "T", "U", "V", "W", "X", "Y", "Z">>
LowerChars == <<"a", "b", "c", "d", "e", "f", "g", "h", "i", "j", "k", "l", "m", "n", "o", "p", "q", "r", "s", "t", "u", "v", "w", "x", "y", "z">>
lower_char(c) ==
    IF \E i \in 1..Len(UpperChars) : UpperChars[i] = c
    THEN LowerChars[CHOOSE i \in 1..Len(UpperChars) : UpperChars[i] = c]
    ELSE c
lower(s) == [i \in 1..Len(s) |-> lower_char(s[i])]

\* str.endswith and the `in` operator on strings.
endswith(s, suffix) ==
    Len(suffix) <= Len(s) /\ SubSeq(s, Len(s) - Len(suffix) + 1, Len(s)) = suffix
contains(sub, s) ==
    \E i \in 1..(Len(s) - Len(sub) + 1) : SubSeq(s, i, i + Len(sub) - 1) = sub

\* str.isdigit(), int(str) and str(int) for non-negative integers.
isdigit(s) == s # <<>> /\ \A i \in 1..Len(s) : IsDigit(s[i])
RECURSIVE int_of(_)
int_of(s) ==
    IF s = <<>> THEN 0
    ELSE 10 * int_of(SubSeq(s, 1, Len(s) - 1)) + DigitVal(s[Len(s)])
RECURSIVE Dec(_)
Dec(n) == IF n < 10 THEN <<Digits[n + 1]>> ELSE Dec(n \div 10) \o <<Digits[(n % 10) + 1]>>

\* str(x) of a JSON value.
py_str(x) ==
    CASE x.t = "str" -> x.v
      [] x.t = "int" -> Dec(x.v)
      [] x.t = "null" -> <<"N", "o", "n", "e">>

\* str(x or ""): a falsy value (None, "", 0) gives the empty string.
str_or_empty(x) ==
    IF x.t = "null" \/ (x.t = "str" /\ x.v = <<>>) \/ (x.t = "int" /\ x.v = 0)
    THEN <<>> ELSE py_str(x)

\* The keys and labels of map_status's mapping.  A label is one symbol: the
\* icon, a space and the word.
ReadyKey == <<"R", "e", "a", "d", "y">>
RunningKey == <<"R", "u", "n", "n", "i", "n", "g">>
DisabledKey == <<"D", "i", "s", "a", "b", "l", "e", "d">>
QueuedKey == <<"Q", "u", "e", "u", "e", "d">>
UnknownKey == <<"U", "n", "k", "n", "o", "w", "n">>
StatusKeys == {ReadyKey, RunningKey, DisabledKey, QueuedKey, UnknownKey}
ReadyLabel == <<"(green circle) Ready">>
RunningLabel == <<"(play) Running">>
DisabledLabel == <<"(yellow circle) Disabled">>
QueuedLabel == <<"(hourglass) Queued">>
UnknownLabel == <<"(question mark) Unknown">>
StatusLabels == {ReadyLabel, RunningLabel, DisabledLabel, QueuedLabel, UnknownLabel}
status_by_name(k) ==
    CASE k = ReadyKey -> ReadyLabel
      [] k = RunningKey -> RunningLabel
      [] k = DisabledKey -> DisabledLabel
      [] k = QueuedKey -> QueuedLabel
      [] k = UnknownKey -> UnknownLabel
status_by_number == <<UnknownLabel, DisabledLabel, QueuedLabel, ReadyLabel, RunningLabel>>

\* list_tasks.map_status: a string of digits is read as its number, then
\* the mapping is consulted with str(s) as the default.
map_status_NoDigitStrings(s) ==
    CASE s.t = "int" /\ s.v + 1 \in DOMAIN status_by_number -> status_by_number[s.v + 1]
      [] s.t = "str" /\ s.v \in StatusKeys -> status_by_name(s.v)
      [] OTHER -> py_str(s)
map_status(s) ==
    LET s_val == IF s.t = "str" /\ isdigit(s.v) THEN JInt(int_of(s.v)) ELSE s
    IN  CASE s_val.t = "int" /\ s_val.v + 1 \in DOMAIN status_by_number ->
                status_by_number[s_val.v + 1]
          [] s_val.t = "str" /\ s_val.v \in StatusKeys -> status_by_name(s_val.v)
          [] OTHER -> py_str(s)

\* list_tasks.map_result: the table of known codes, "Code <n>" for any other
\* number, str(code) for what is not a number.
KnownCodes == {0, 267009, 267008, 267011, 267002, 267010, 267000}
known(n) ==
    CASE n = 0 -> <<"Succeeded">>
      [] n = 267009 -> <<"Running">>
      [] n = 267008 -> <<"Queued">>
      [] n = 267011 -> <<"Not executed yet">>
      [] n = 267002 -> <<"Disabled">>
      [] n = 267010 -> <<"Ready">>
      [] n = 267000 -> <<"No more runs">>
map_result(code) ==
    IF code.t = "int" \/ (code.t = "str" /\ isdigit(code.v))
    THEN LET code_int == IF code.t = "int" THEN code.v ELSE int_of(code.v)
         IN  IF code_int \in KnownCodes THEN known(code_int)
             ELSE <<"Code ">> \o Dec(code_int)
    ELSE py_str(code)

\* list_tasks._is_python_action on one action record.
is_python_action(act) ==
    LET cmd == lower(str_or_empty(act.Command))
        args == lower(str_or_empty(act.Arguments))
    IN  \/ endswith(cmd, <<"p", "y", "t", "h", "o", "n", ".", "e", "x", "e">>)
        \/ contains(<<"\\", "p", "y", "t", "h", "o", "n">>, cmd)
        \/ contains(<<"/", "p", "y", "t", "h", "o", "n">>, cmd)
        \/ endswith(args, <<".", "p", "y">>)
        \/ contains(<<".", "p", "y", " ">>, args)

\* item.get("Actions") or []
actions_of(item) == IF item.Actions.t = "list" THEN item.Actions.v ELSE <<>>

\* list_tasks._passes_filters: a filter takes part when its argument is
\* truthy.
passes_filters_CaseSensitive(item, f) ==
    /\ Truthy(f.author) => str_or_empty(item.Author) = f.author.v
    /\ Truthy(f.name_contains) => contains(f.name_contains.v, str_or_empty(item.Name))
    /\ f.only_python =>
        \E i \in 1..Len(actions_of(item)) : is_python_action(actions_of(item)[i])
passes_filters(item, f) ==
    /\ Truthy(f.author) => lower(str_or_empty(item.Author)) = lower(f.author.v)
    /\ Truthy(f.name_contains) =>
        contains(lower(f.name_contains.v), lower(str_or_empty(item.Name)))
    /\ f.only_python =>
        \E i \in 1..Len(actions_of(item)) : is_python_action(actions_of(item)[i])

\* What the invocation printed, after strip() and json.loads: nothing, one
\* object, or an array of objects.
NoOutput == [shape |-> "empty", recs |-> <<>>]
OneObject(r) == [shape |-> "object", recs |-> <<r>>]
Array(rs) == [shape |-> "array", recs |-> rs]
json_records(out) == IF out.shape = "empty" THEN <<>> ELSE out.recs

\* The loop that rewrites Status and LastRunResult, and the comprehension
\* that keeps the records passing the filters.
normalise(it) ==
    [it EXCEPT !.Status = JStr(map_status(it.Status)),
               !.LastRunResult = JStr(map_result(it.LastRunResult))]
RECURSIVE keep(_, _)
keep(data, f) ==
    IF data = <<>> THEN <<>>
    ELSE (IF passes_filters(data[1], f) THEN <<data[1]>> ELSE <<>>) \o keep(Tail(data), f)
list_result(out, f) ==
    LET data == json_records(out)
    IN  keep([i \in 1..Len(data) |-> normalise(data[i])], f)

\* ------------------------------------------------------------ input values
Texts == Strs(MaxLen)
ShortTexts == Strs(1)
\* Time-of-day texts: two that parse as HH:MM and one that does not.
TimeTexts == {<<"0", "2", ":", "3", "0">>, <<"7", ":", "5">>, <<"2", "5", ":", "0", "0">>}
AtTexts == Texts \cup TimeTexts
AtVals == {TimeAt(12, 0), TimeAt(2, 30)} \cup {StrAt(s) : s \in AtTexts}
DayLists == Lists(ShortTexts \cup {<<"M", "o", "n">>}, MaxList)
OnVals == {NoOn, DateOn(2026, 12, 24)} \cup {DaysOn(l) : l \in DayLists}
ArgVals == {None} \cup {Some(l) : l \in Lists(ShortTexts, MaxList)}
OptTexts == {None} \cup {Some(s) : s \in ShortTexts}
\* "Monthly" stands for any value outside the Frequency literal.
Frequencies == {"Once", "Daily", "Weekly", "Monthly"}
\* argparse's choices for --frequency.
CliFrequencies == {"Once", "Daily", "Weekly"}

\* The dataclass defaults of PythonTask, with a name, a script and an
\* interpreter (which have none).
DefaultTask ==
    [name |-> <<"a">>, script |-> <<"a">>, python |-> <<"a">>, args |-> None,
     frequency |-> "Daily", at |-> TimeAt(12, 0), on |-> NoOn,
     description |-> <<"Scheduled Python script">>, user |-> None, password |-> None]

\* The tasks drawn: the default with one text field, the arguments, the
\* credentials, or the frequency together with `at` or `on`, set freely.
Tasks ==
    {[DefaultTask EXCEPT ![f] = s] : f \in {"name", "script", "python", "description"}, s \in Texts}
    \cup {[DefaultTask EXCEPT !.args = a] : a \in ArgVals}
    \cup {[DefaultTask EXCEPT !.user = u, !.password = p] : u \in OptTexts, p \in OptTexts}
    \cup {[DefaultTask EXCEPT !.frequency = f, !.at = a] : f \in Frequencies, a \in AtVals}
    \cup {[DefaultTask EXCEPT !.frequency = f, !.on = o] : f \in Frequencies, o \in OnVals}

\* datetime.now(): two consecutive days.
Clock1 == [date |-> [y |-> 2026, m |-> 11, d |-> 1], wd |-> "Sunday"]
Clock2 == [date |-> [y |-> 2026, m |-> 11, d |-> 2], wd |-> "Monday"]

\* ------------------------------------------------ list_tasks: input values
MaxRecs == 2

\* Actions as Export-ScheduledTask reports them.
Act(cmd, args) == [Command |-> cmd, Arguments |-> args]
ActBareExe == Act(JStr(<<"p", "y", "t", "h", "o", "n", ".", "e", "x", "e">>), JNull)
ActPythonDir == Act(JStr(<<"C", ":", "\\", "P", "y", "t", "h", "o", "n", "3", "\\", "p", "y", ".", "e", "x", "e">>), JStr(<<>>))
ActUnixPython == Act(JStr(<<"/", "u", "s", "r", "/", "b", "i", "n", "/", "p", "y", "t", "h", "o", "n", "3">>), JNull)
ActScriptLast == Act(JStr(<<"c", "m", "d", ".", "e", "x", "e">>), JStr(<<"/", "c", " ", "j", "o", "b", ".", "P", "Y">>))
ActScriptThenArgs == Act(JStr(<<"c", "m", "d", ".", "e", "x", "e">>), JStr(<<"j", "o", "b", ".", "p", "y", " ", "-", "-", "x", " ", "1">>))
ActOther == Act(JStr(<<"C", ":", "\\", "t", "o", "o", "l", "s", "\\", "r", "u", "n", ".", "e", "x", "e">>), JStr(<<"r", "u", "n", ".", "e", "x", "e">>))
ActNoPath == Act(JStr(<<"p", "y", "t", "h", "o", "n">>), JStr(<<>>))
ActEmpty == Act(JNull, JNull)
ActionVals ==
    {ActBareExe, ActPythonDir, ActUnixPython, ActScriptLast, ActScriptThenArgs,
     ActOther, ActNoPath, ActEmpty}
JList(l) == [t |-> "list", v |-> l]
ActionLists ==
    {JNull, JList(<<>>), JList(<<ActOther, ActScriptThenArgs>>)}
    \cup {JList(<<a>>) : a \in ActionVals}

NameAb == <<"A", "b">>
NameC == <<"c">>
AuthorBob == <<"B", "o", "b">>
DefaultRecord ==
    [Name |-> JStr(NameAb), Author |-> JStr(AuthorBob), Status |-> JInt(3),
     LastRunResult |-> JInt(0), Actions |-> JList(<<ActBareExe>>)]

\* Status values: the numbers 0..4 and one beyond, the five names, a name
\* in another case, strings of digits, another string, the empty string and
\* None.
StatusVals ==
    {JInt(n) : n \in 0..5}
    \cup {JStr(k) : k \in StatusKeys}
    \cup {JStr(lower(ReadyKey)), JStr(<<"3">>), JStr(<<"0", "4">>), JStr(<<"7">>),
          JStr(<<"a">>), JStr(<<>>), JNull}
\* Last-run results: the known codes, other numbers, strings of digits,
\* other strings and None.
ResultVals ==
    {JInt(n) : n \in KnownCodes \cup {1, 267001, 999999}}
    \cup {JStr(Dec(n)) : n \in {0, 1, 267009}}
    \cup {JStr(<<"0", "1">>), JStr(<<"a">>), JStr(<<"0", "x", "1">>), JStr(<<>>), JNull}

\* Records that differ in what the filters look at.
ArrRecords ==
    {[DefaultRecord EXCEPT !.Name = n, !.Author = a, !.Actions = JList(<<x>>)] :
        n \in {JStr(NameAb), JStr(NameC)}, a \in {JStr(AuthorBob), JNull},
        x \in {ActBareExe, ActOther}}
Records ==
    {[DefaultRecord EXCEPT !.Status = s] : s \in StatusVals}
    \cup {[DefaultRecord EXCEPT !.LastRunResult = r] : r \in ResultVals}
    \cup {[DefaultRecord EXCEPT !.Actions = l] : l \in ActionLists}
    \cup {[DefaultRecord EXCEPT !.Name = n] : n \in {JNull, JStr(<<>>)}}
    \cup ArrRecords
Payloads ==
    {NoOutput} \cup {OneObject(r) : r \in Records}
    \cup {Array(rs) : rs \in Lists(ArrRecords, MaxRecs)}
SamplePayload == Array(<<DefaultRecord, [DefaultRecord EXCEPT !.Name = JStr(NameC)]>>)

\* The keyword arguments of list_tasks; NoFilters are the defaults.
NoFilters == [only_python |-> FALSE, author |-> None, name_contains |-> None]
AuthorArgs == {None, Some(<<>>), Some(lower(AuthorBob)), Some(<<"B", "O", "B">>), Some(<<"a", "l">>)}
NameArgs == {None, Some(<<>>), Some(<<"b">>), Some(<<"A", "B">>), Some(<<"x">>)}
FilterVals ==
    {[only_python |-> p, author |-> a, name_contains |-> n] :
        p \in BOOLEAN, a \in AuthorArgs, n \in NameArgs}

\* ------------------------------------------------------------------- state
VARIABLES
    task,        \* the PythonTask the calls are made on
    host,        \* the host scheduler's entry for the task's name
    now,         \* what datetime.now() returns
    pc,          \* where the call in progress stands ("idle": none)
    call,        \* the call in progress, or the last one made
    log,         \* the invocations _run_powershell made for that call, in order
    result,      \* how that call ended ("none": not yet)
    pre,         \* the host's entry when that call began
    interfered,  \* whether another actor changed the entry since it began
    stdout,      \* what the host prints for the enumeration script
    filters,     \* the keyword arguments of the list_tasks call
    listed       \* what list_tasks returned

vars == <<task, host, now, pc, call, log, result, pre, interfered, stdout, filters, listed>>

Absent == [present |-> FALSE, reg |-> "none"]
Registered(by) == [present |-> TRUE, reg |-> by]

\* Mutant of HostRcs: the existence query may fail on a task that is there.
HostRcs_FlakyExists(kind, h) ==
    IF kind = "exists" THEN (IF h.present THEN {0, 1} ELSE {1})
    ELSE IF kind = "register" THEN (IF h.present THEN {1} ELSE {0, 1})
    ELSE IF kind = "list" THEN {0, 1}
    ELSE (IF h.present THEN {0, 1} ELSE {1})

\* The exit codes the host can answer an invocation with (1: any non-zero).
\* The existence query exits 0 exactly when the task is there (its script,
\* core.py 154-157); a command naming a task that is not there fails, and so
\* does registering a name that is taken; anything else may fail as well.
HostRcs(kind, h) ==
    IF kind = "exists" THEN (IF h.present THEN {0} ELSE {1})
    ELSE IF kind = "register" THEN (IF h.present THEN {1} ELSE {0, 1})
    ELSE IF kind = "list" THEN {0, 1}
    ELSE (IF h.present THEN {0, 1} ELSE {1})

\* The host's entry after it answered rc.
HostAfter(kind, h, rc) ==
    IF rc # 0 THEN h
    ELSE IF kind = "register" THEN Registered("task")
    ELSE IF kind = "unregister" THEN Absent
    ELSE h

\* Mutant of run_powershell: a failed-looking call is not retried in the code;
\* here every script is run a second time.
run_powershell_Retry(kind, script, rc) ==
    /\ rc \in HostRcs(kind, host)
    /\ log' = log \o << [kind |-> kind, script |-> script, rc |-> rc],
                        [kind |-> kind, script |-> script, rc |-> rc] >>
    /\ host' = HostAfter(kind, host, rc)

\* _run_powershell(script): one invocation, answered by the host.
run_powershell(kind, script, rc) ==
    /\ rc \in HostRcs(kind, host)
    /\ log' = Append(log, [kind |-> kind, script |-> script, rc |-> rc])
    /\ host' = HostAfter(kind, host, rc)

\* The call returns or raises.
Finish(res) == pc' = "idle" /\ result' = res

NoCall == [op |-> "none", overwrite |-> FALSE]

Init ==
    /\ task \in Tasks
    /\ host \in {Absent, Registered("external")}
    /\ now = Clock1
    /\ pc = "idle"
    /\ call = NoCall
    /\ log = <<>>
    /\ result = "none"
    /\ pre = host
    /\ interfered = FALSE
    /\ stdout = SamplePayload
    /\ filters = NoFilters
    /\ listed = <<>>

\* The first statement of each method.
FirstPc(op) ==
    CASE op = "create" -> "create_exists"
      [] op = "delete" -> "delete_exists"
      [] op = "run" -> "run_exists"
      [] op = "enable" -> "enable_invoke"
      [] op = "disable" -> "disable_invoke"
      [] op = "stop" -> "stop_invoke"
      [] op = "exists" -> "exists_query"
      [] op = "list" -> "list_invoke"

Ops == {"create", "delete", "run", "enable", "disable", "stop", "exists", "list"}

\* A caller calls a method of the task (or list_tasks, with its keyword
\* arguments f).
BeginWith(op, overwrite, f) ==
    /\ pc = "idle"
    /\ pc' = FirstPc(op)
    /\ call' = [op |-> op, overwrite |-> overwrite]
    /\ log' = <<>>
    /\ result' = "none"
    /\ pre' = host
    /\ interfered' = FALSE
    /\ filters' = f
    /\ listed' = <<>>
    /\ UNCHANGED <<task, host, now, stdout>>
Begin(op, overwrite) == BeginWith(op, overwrite, NoFilters)

Call == \E op \in Ops, ow \in BOOLEAN : (op # "create" => ~ow) /\ Begin(op, ow)

\* ------------------------------------------------------- PythonTask methods
\* Mutant of CreateExists: the overwrite flag is not looked at, an existing
\* task is always deleted.
CreateExists_IgnoresOverwrite ==
    /\ pc = "create_exists"
    /\ \E rc \in {0, 1} :
        /\ run_powershell("exists", exists_script(task), rc)
        /\ IF rc = 0
           THEN pc' = "delete_exists" /\ UNCHANGED result
           ELSE pc' = "create_register" /\ UNCHANGED result
    /\ UNCHANGED <<task, now, call, pre, interfered, stdout, filters, listed>>

\* Mutant of CreateExists: with overwrite set, delete is called whether or
\* not the task exists.
CreateExists_DeletesBlindly ==
    /\ pc = "create_exists"
    /\ \E rc \in {0, 1} :
        /\ run_powershell("exists", exists_script(task), rc)
        /\ IF rc = 0 /\ ~call.overwrite
           THEN Finish("AlreadyExists")
           ELSE IF call.overwrite
                THEN pc' = "delete_exists" /\ UNCHANGED result
                ELSE pc' = "create_register" /\ UNCHANGED result
    /\ UNCHANGED <<task, now, call, pre, interfered, stdout, filters, listed>>

\* create, lines 162-165: the existence query and what it decides.
CreateExists ==
    /\ pc = "create_exists"
    /\ \E rc \in {0, 1} :
        /\ run_powershell("exists", exists_script(task), rc)
        /\ IF rc = 0
           THEN IF ~call.overwrite
                THEN Finish("AlreadyExists")
                ELSE pc' = "delete_exists" /\ UNCHANGED result
           ELSE pc' = "create_register" /\ UNCHANGED result
    /\ UNCHANGED <<task, now, call, pre, interfered, stdout, filters, listed>>

\* Mutant of DeleteExists: the answer of the query is not looked at.
DeleteExists_NoCheck ==
    /\ pc = "delete_exists"
    /\ \E rc \in {0, 1} :
        /\ run_powershell("exists", exists_script(task), rc)
        /\ pc' = "delete_unregister"
    /\ UNCHANGED <<task, now, call, pre, interfered, result, stdout, filters, listed>>

\* Mutant of DeleteExists: a delete made by create reuses create's answer
\* instead of asking the host again.
DeleteExists_ReusesAnswer ==
    /\ pc = "delete_exists"
    /\ IF call.op = "delete"
       THEN \E rc \in {0, 1} :
               /\ run_powershell("exists", exists_script(task), rc)
               /\ IF rc = 0
                  THEN pc' = "delete_unregister" /\ UNCHANGED result
                  ELSE Finish("NotFound")
       ELSE pc' = "delete_unregister" /\ UNCHANGED <<result, log, host>>
    /\ UNCHANGED <<task, now, call, pre, interfered, stdout, filters, listed>>

\* delete, lines 175-176: its own existence query.
DeleteExists ==
    /\ pc = "delete_exists"
    /\ \E rc \in {0, 1} :
        /\ run_powershell("exists", exists_script(task), rc)
        /\ IF rc = 0
           THEN pc' = "delete_unregister" /\ UNCHANGED result
           ELSE Finish("NotFound")
    /\ UNCHANGED <<task, now, call, pre, interfered, stdout, filters, listed>>

\* Mutant of DeleteUnregister: the call ends with the delete, also when
\* create made it.
DeleteUnregister_EndsCall ==
    /\ pc = "delete_unregister"
    /\ \E rc \in {0, 1} :
        /\ run_powershell("unregister", unregister_script(task), rc)
        /\ Finish(IF rc # 0 THEN "TaskError" ELSE "ok")
    /\ UNCHANGED <<task, now, call, pre, interfered, stdout, filters, listed>>

\* Mutant of DeleteUnregister: create goes on to register although the
\* unregister invocation failed.
DeleteUnregister_IgnoresFailure ==
    /\ pc = "delete_unregister"
    /\ \E rc \in {0, 1} :
        /\ run_powershell("unregister", unregister_script(task), rc)
        /\ IF call.op = "delete"
           THEN Finish(IF rc # 0 THEN "TaskError" ELSE "ok")
           ELSE pc' = "create_register" /\ UNCHANGED result
    /\ UNCHANGED <<task, now, call, pre, interfered, stdout, filters, listed>>

\* delete, lines 177-182: the unregister invocation; a delete made by create
\* returns into create, line 167.
DeleteUnregister ==
    /\ pc = "delete_unregister"
    /\ \E rc \in {0, 1} :
        /\ run_powershell("unregister", unregister_script(task), rc)
        /\ IF rc # 0
           THEN Finish("TaskError")
           ELSE IF call.op = "delete"
                THEN Finish("ok")
                ELSE pc' = "create_register" /\ UNCHANGED result
    /\ UNCHANGED <<task, now, call, pre, interfered, stdout, filters, listed>>

\* create, lines 167-172: build the registration script and run it.
CreateRegister ==
    /\ pc = "create_register"
    /\ \E rc \in {0, 1} :
        /\ run_powershell("register", build_register(task, now), rc)
        /\ Finish(IF rc # 0 THEN "TaskError" ELSE "ok")
    /\ UNCHANGED <<task, now, call, pre, interfered, stdout, filters, listed>>

\* run, lines 185-186.
RunExists ==
    /\ pc = "run_exists"
    /\ \E rc \in {0, 1} :
        /\ run_powershell("exists", exists_script(task), rc)
        /\ IF rc = 0
           THEN pc' = "run_start" /\ UNCHANGED result
           ELSE Finish("NotFound")
    /\ UNCHANGED <<task, now, call, pre, interfered, stdout, filters, listed>>

\* run, lines 187-192.
RunStart ==
    /\ pc = "run_start"
    /\ \E rc \in {0, 1} :
        /\ run_powershell("start", start_script(task), rc)
        /\ Finish(IF rc # 0 THEN "TaskError" ELSE "ok")
    /\ UNCHANGED <<task, now, call, pre, interfered, stdout, filters, listed>>

\* enable
Enable ==
    /\ pc = "enable_invoke"
    /\ \E rc \in {0, 1} :
        /\ run_powershell("enable", enable_script(task), rc)
        /\ Finish(IF rc # 0 THEN "TaskError" ELSE "ok")
    /\ UNCHANGED <<task, now, call, pre, interfered, stdout, filters, listed>>

\* disable
Disable ==
    /\ pc = "disable_invoke"
    /\ \E rc \in {0, 1} :
        /\ run_powershell("disable", disable_script(task), rc)
        /\ Finish(IF rc # 0 THEN "TaskError" ELSE "ok")
    /\ UNCHANGED <<task, now, call, pre, interfered, stdout, filters, listed>>

\* stop
Stop ==
    /\ pc = "stop_invoke"
    /\ \E rc \in {0, 1} :
        /\ run_powershell("stop", stop_script(task), rc)
        /\ Finish(IF rc # 0 THEN "TaskError" ELSE "ok")
    /\ UNCHANGED <<task, now, call, pre, interfered, stdout, filters, listed>>

\* exists
Exists ==
    /\ pc = "exists_query"
    /\ \E rc \in {0, 1} :
        /\ run_powershell("exists", exists_script(task), rc)
        /\ Finish(IF rc = 0 THEN "true" ELSE "false")
    /\ UNCHANGED <<task, now, call, pre, interfered, stdout, filters, listed>>

\* list_tasks, lines 303-305: the enumeration invocation and its failure.
ListTasks ==
    /\ pc = "list_invoke"
    /\ \E rc \in {0, 1} :
        /\ run_powershell("list", list_script, rc)
        /\ Finish(IF rc # 0 THEN "TaskError" ELSE "ok")
        /\ listed' = IF rc # 0 THEN listed ELSE list_result(stdout, filters)
    /\ UNCHANGED <<task, now, call, pre, interfered, stdout, filters>>

\* ---------------------------------------------------------------- the CLI
\* datetime.strptime(value, "%Y-%m-%d").date(): a four-digit year, a month
\* and a day of one or two digits (the days drawn exist in every month).
parse_date(value) ==
    LET dashes == {i \in 1..Len(value) : value[i] = "-"}
    IN  IF Cardinality(dashes) # 2 THEN None
        ELSE LET d1 == CHOOSE i \in dashes : \A j \in dashes : i <= j
                 d2 == CHOOSE i \in dashes : \A j \in dashes : j <= i
                 yy == SubSeq(value, 1, d1 - 1)
                 mm == SubSeq(value, d1 + 1, d2 - 1)
                 dd == SubSeq(value, d2 + 1, Len(value))
             IN  IF /\ Len(yy) = 4 /\ \A i \in 1..4 : IsDigit(yy[i])
                    /\ IsNum(mm) /\ NumVal(mm) \in 1..12
                    /\ IsNum(dd) /\ NumVal(dd) \in 1..28
                 THEN Some(DateOn(100 * NumVal(SubSeq(yy, 1, 2)) + NumVal(SubSeq(yy, 3, 4)),
                                  NumVal(mm), NumVal(dd)))
                 ELSE None

\* The values drawn for --at and --on: times that parse and texts that do
\* not; nothing, weekday lists, a date and non-dates.
CliAtTexts == TimeTexts \cup ShortTexts
CliOnArgs == Lists({<<"M", "o", "n">>, <<";">>}, MaxList) \cup {<<FmtDate(DateOn(2026, 12, 24))>>}

\* main, lines 48-52: the `on` value of the task; None stands for ValueError.
cli_on(frequency, on) ==
    IF frequency = "Once"
    THEN IF on # <<>>
         THEN parse_date(on[1])
         ELSE Some(NoOn)
    ELSE IF frequency = "Weekly"
    THEN Some(IF on # <<>> THEN DaysOn(on) ELSE NoOn)
    ELSE Some(NoOn)

\* main, cmd == "add" (lines 45-66 and 89-91): parse the time and the date,
\* which may raise ValueError, then construct the task and call create.  A
\* process runs main once, as the first thing it does.
MainAdd ==
    /\ pc = "idle"
    /\ call = NoCall
    /\ \E f \in CliFrequencies, at \in CliAtTexts, on \in CliOnArgs, ow \in BOOLEAN :
        LET at_t == parse_time(at)
            on_val == cli_on(f, on)
        IN  /\ call' = [op |-> "add", overwrite |-> ow]
            /\ IF at_t.some /\ on_val.some
               THEN /\ task' = [DefaultTask EXCEPT !.frequency = f, !.at = at_t.v,
                                                   !.on = on_val.v]
                    /\ pc' = "create_exists"
                    /\ result' = "none"
               ELSE /\ Finish("ValueError")
                    /\ UNCHANGED task
    /\ log' = <<>>
    /\ pre' = host
    /\ interfered' = FALSE
    /\ UNCHANGED <<host, now, stdout, filters, listed>>

\* ------------------------------------------------------------ environment
\* Another actor removes the task from the host scheduler.
ExternalDelete ==
    /\ host.present
    /\ host' = Absent
    /\ interfered' = TRUE
    /\ UNCHANGED <<task, now, pc, call, log, result, pre, stdout, filters, listed>>

\* Another actor registers a task of this name.
ExternalRegister ==
    /\ ~host.present
    /\ host' = Registered("external")
    /\ interfered' = TRUE
    /\ UNCHANGED <<task, now, pc, call, log, result, pre, stdout, filters, listed>>

\* Midnight passes.
Tick ==
    /\ now = Clock1
    /\ now' = Clock2
    /\ UNCHANGED <<task, host, pc, call, log, result, pre, interfered, stdout, filters, listed>>

Next ==
    \/ Call
    \/ MainAdd
    \/ CreateExists
    \/ DeleteExists
    \/ DeleteUnregister
    \/ CreateRegister
    \/ RunExists
    \/ RunStart
    \/ Enable
    \/ Disable
    \/ Stop
    \/ Exists
    \/ ListTasks
    \/ ExternalDelete
    \/ ExternalRegister
    \/ Tick

Spec == Init /\ [][Next]_vars

\* list_tasks on its own: every payload and every combination of keyword
\* arguments, on a host that holds no entry of the task.
CallList == \E f \in FilterVals : BeginWith("list", FALSE, f)
ListInit ==
    /\ task = DefaultTask
    /\ host = Absent
    /\ now = Clock1
    /\ pc = "idle"
    /\ call = NoCall
    /\ log = <<>>
    /\ result = "none"
    /\ pre = host
    /\ interfered = FALSE
    /\ stdout \in Payloads
    /\ filters = NoFilters
    /\ listed = <<>>
ListNext == CallList \/ ListTasks
ListSpec == ListInit /\ [][ListNext]_vars

\* ------------------------------------------------------------------ claims
Kinds(l) == [i \in 1..Len(l) |-> l[i].kind]
Count(kind) == Cardinality({i \in 1..Len(log) : log[i].kind = kind})
\* The call has returned or raised.
Done == pc = "idle" /\ result # "none"
\* The call is PythonTask.create, made directly or by the CLI's add.
CreateCall == call.op = "create" \/ (call.op = "add" /\ result # "ValueError")
\* Every invocation of the call other than an existence query exited 0.
AllOk == \A i \in 1..Len(log) : log[i].kind # "exists" => log[i].rc = 0

\* C1: create(overwrite=False) on a task that is Present (and that no other
\* actor touches during the call) raises TaskAlreadyExistsError and issues
\* neither an unregister nor a register invocation; the host's entry stays
\* as it was.
C1_NoOverwriteKeepsTask ==
    (CreateCall /\ ~call.overwrite /\ pre.present /\ ~interfered) =>
        /\ Count("unregister") = 0
        /\ Count("register") = 0
        /\ host = pre
        /\ (Done => result = "AlreadyExists" /\ Kinds(log) = <<"exists">>)

C1_Witness ==
    /\ Done /\ call = [op |-> "create", overwrite |-> FALSE]
    /\ pre = Registered("external") /\ ~interfered
    /\ result = "AlreadyExists" /\ host = Registered("external")

\* C2: create(overwrite=True) on a task that is Present, with no other actor
\* interfering and every invocation succeeding, issues exactly one unregister
\* and then exactly one register invocation and ends with the task Present;
\* between the two the task is Absent.
C2_OverwriteDeletesThenRegisters ==
    (CreateCall /\ call.overwrite /\ pre.present /\ ~interfered /\ AllOk) =>
        /\ (Done => /\ Kinds(log) = <<"exists", "exists", "unregister", "register">>
                    /\ result = "ok"
                    /\ host = Registered("task"))
        /\ (pc = "create_register" => host = Absent)

C2_Witness ==
    /\ Done /\ call = [op |-> "create", overwrite |-> TRUE]
    /\ pre.present /\ ~interfered /\ AllOk
    /\ Kinds(log) = <<"exists", "exists", "unregister", "register">>
    /\ host = Registered("task")

\* C3: create on a task that is Absent, with either value of overwrite,
\* issues no unregister and exactly one register invocation; when that
\* invocation succeeds the task is Present, and exists() called on a task
\* that is Present returns true.
C3_CreateOnAbsentRegisters ==
    /\ (CreateCall /\ ~pre.present /\ ~interfered) =>
        /\ Count("unregister") = 0
        /\ (Done => /\ Kinds(log) = <<"exists", "register">>
                    /\ (log[2].rc = 0 => host = Registered("task") /\ result = "ok"))
    /\ (call.op = "exists" /\ Done /\ ~interfered) =>
        /\ (result = "true") = pre.present
        /\ result \in {"true", "false"}

C3_Witness ==
    /\ Done /\ call.op = "create" /\ pre = Absent /\ ~interfered
    /\ result = "ok" /\ host = Registered("task")

\* C4: delete on a task that is Absent raises TaskNotFoundError without
\* issuing an unregister invocation; on a task that is Present it issues the
\* unregister invocation, and when that succeeds the task is Absent.
C4_Delete ==
    (call.op = "delete" /\ ~interfered) =>
        /\ (~pre.present => /\ Count("unregister") = 0
                            /\ (Done => result = "NotFound"))
        /\ (pre.present /\ Done =>
                /\ Kinds(log) = <<"exists", "unregister">>
                /\ (log[2].rc = 0 => host = Absent /\ result = "ok"))

C4_Witness ==
    /\ Done /\ call.op = "delete" /\ pre = Absent /\ ~interfered
    /\ result = "NotFound" /\ Kinds(log) = <<"exists">>

\* C5 (as claimed): each of run, enable, disable and stop, called on a task
\* that is Absent, fails with TaskNotFoundError.
C5_AbsentGivesNotFound ==
    (call.op \in {"run", "enable", "disable", "stop"} /\ ~pre.present /\ ~interfered /\ Done)
        => result = "NotFound"

\* C6: every call of create, delete and run issues its own existence query
\* before any other invocation of that call and decides on that answer
\* alone: an unregister or a start follows directly on an existence query
\* of the same call that answered "present", and within create the
\* unregister follows the delete step's own query, not create's.
C6_FreshExistenceQuery ==
    (CreateCall \/ call.op \in {"delete", "run"}) =>
        /\ (log # <<>> => log[1].kind = "exists")
        /\ (Done => log # <<>>)
        /\ \A i \in 1..Len(log) :
            /\ log[i].kind \in {"unregister", "start"} =>
                /\ i > 1
                /\ log[i - 1].kind = "exists"
                /\ log[i - 1].rc = 0
                /\ i = (IF CreateCall THEN 3 ELSE 2)
            /\ log[i].kind = "register" =>
                /\ i > 1
                /\ (log[i - 1].kind = "exists" => log[i - 1].rc # 0)
        /\ (Done /\ call.op \in {"delete", "run"} =>
                (result = "NotFound") = (log[1].rc # 0))
        /\ (Done /\ CreateCall /\ Len(log) = 2 => log[2].kind \in {"exists", "register"})

C6_Witness ==
    /\ pc = "delete_unregister" /\ CreateCall /\ call.overwrite
    /\ Kinds(log) = <<"exists", "exists">>

\* C7 (as claimed): every operation results in exactly one invocation per
\* call.
C7_OneInvocationPerCall ==
    (Done /\ (CreateCall \/ call.op \in Ops)) => Len(log) = 1

\* C7 (amended): enable, disable, stop, exists and list issue exactly one
\* invocation per call; delete and run issue an existence query and, when it
\* answers "present", one more invocation; create issues an existence query,
\* then (task present, overwrite set) the delete step's query and unregister,
\* then one register: one to four invocations, stopping at the first failure.
C7_InvocationsPerCall ==
    Done =>
        /\ (call.op \in {"enable", "disable", "stop", "exists", "list"} => Len(log) = 1)
        /\ (call.op \in {"delete", "run"} =>
                Len(log) = (IF log[1].rc = 0 THEN 2 ELSE 1))
        /\ (CreateCall =>
                Len(log) = (IF log[1].rc # 0 THEN 2
                            ELSE IF ~call.overwrite THEN 1
                            ELSE IF log[2].rc # 0 THEN 2
                            ELSE IF log[3].rc # 0 THEN 3
                            ELSE 4))

C7_Witness ==
    /\ Done /\ call.op = "create" /\ Len(log) = 4 /\ result = "ok"

\* The symbols a caller-supplied value is made of (the space apart, which
\* the templates produce too).
CallerSyms ==
    (Chars \ {" "}) \cup {Digits[i] : i \in 1..10} \cup {":", "-", "M", "o", "n"}

\* The symbols of a command text that lie outside its double-quoted
\* literals, as PowerShell reads them: a double quote opens a literal, a
\* doubled double quote inside one is a quote character, a single one closes
\* it.  "<open>" marks a literal left open at the end.
RECURSIVE OutsideSyms(_, _)
OutsideSyms(s, inq) ==
    IF s = <<>> THEN (IF inq THEN {"<open>"} ELSE {})
    ELSE IF Head(s) = DQ
    THEN IF inq /\ Len(s) >= 2 /\ s[2] = DQ
         THEN OutsideSyms(Tail(Tail(s)), TRUE)
         ELSE OutsideSyms(Tail(s), ~inq)
    ELSE (IF inq THEN {} ELSE {Head(s)}) \cup OutsideSyms(Tail(s), inq)

QuotedOnly(script) == OutsideSyms(script, FALSE) \cap (CallerSyms \cup {"<open>"}) = {}

\* C8 (as claimed): in every command text issued, every caller-supplied
\* value appears only in quoted form: outside the double-quoted literals the
\* text holds template text only, and every literal is closed.
C8_EveryValueQuoted ==
    \A i \in 1..Len(log) : QuotedOnly(log[i].script)

\* C9 (as claimed): a task whose frequency is not one of Once, Daily, Weekly
\* gets no trigger fragment, hence no register invocation: create raises.
C9_UnknownFrequencyFails ==
    (task.frequency \notin {"Once", "Daily", "Weekly"}) =>
        /\ Count("register") = 0
        /\ (Done /\ CreateCall => result # "ok")

\* C10 (as claimed): create on a task whose time of day is a string that
\* does not parse as HH:MM issues no invocation at all.
C10_MalformedTimeRejectedLocally ==
    (call.op \in {"create", "add"} /\ task.at.kind = "str" /\ ~parse_time(task.at.s).some)
        => log = <<>>

\* The step in which create builds and runs the registration script.
RegisterStep == pc = "create_register" /\ pc' = "idle"
\* The script that step ran.
Registered_script == log'[Len(log')].script

\* The trigger fragment of a registration script: from the "$trigger = ..."
\* template up to the "; " that _build_register puts after it.
TriggerTemplates ==
    {"$trigger = New-ScheduledTaskTrigger -Once -At (Get-Date ",
     "$trigger = New-ScheduledTaskTrigger -Weekly -DaysOfWeek ",
     "$trigger = New-ScheduledTaskTrigger -Daily -At "}
TriggerOf(script) ==
    LET i == CHOOSE k \in 1..Len(script) : script[k] \in TriggerTemplates
        j == CHOOSE k \in (i + 1)..Len(script) :
                /\ script[k] = "; "
                /\ \A m \in (i + 1)..(k - 1) : script[m] # "; "
    IN  SubSeq(script, i, j - 1)

\* The fragment C11 describes, for a task and the time of rendering; noDays
\* says when a Weekly task counts as having no day set.
C11_Fragment(t, clock, noDays) ==
    IF t.frequency = "Once"
    THEN <<"$trigger = New-ScheduledTaskTrigger -Once -At (Get-Date ">>
         \o quote_ps_arg(FmtDate(IF t.on.kind = "date" THEN t.on ELSE clock.date)
                         \o <<" ">> \o at_str(t))
         \o <<")">>
    ELSE IF t.frequency = "Weekly"
    THEN <<"$trigger = New-ScheduledTaskTrigger -Weekly -DaysOfWeek ">>
         \o (IF noDays THEN <<clock.wd>> ELSE Join(<<",">>, t.on.days))
         \o <<" -At ">> \o at_str(t)
    ELSE <<"$trigger = New-ScheduledTaskTrigger -Daily -At ">> \o at_str(t)

RegisterTemplates ==
    {"Register-ScheduledTask -TaskName $taskName -Description $description -Action $action -Trigger $trigger -User ",
     "Register-ScheduledTask -TaskName $taskName -Description $description -Action $action -Trigger $trigger | Out-Null"}
TailOf(script) ==
    LET i == CHOOSE k \in 1..Len(script) : script[k] \in RegisterTemplates
    IN  SubSeq(script, i, Len(script))
\* The command carries opt followed by the quoted value.
Carries(tl, opt, value) ==
    \E i \in 1..(Len(tl) - Len(quote_ps_arg(value))) :
        /\ tl[i] = opt
        /\ SubSeq(tl, i + 1, i + Len(quote_ps_arg(value))) = quote_ps_arg(value)
\* The command carries no opt at all.
Lacks(tl, opt) == \A i \in 1..Len(tl) : tl[i] # opt

UserOpt == "Register-ScheduledTask -TaskName $taskName -Description $description -Action $action -Trigger $trigger -User "
PasswordOpt == " -Password "

\* C12: the Register-ScheduledTask command carries -User and -Password with
\* the quoted values when user and password are both given (not None and not
\* empty), -User only when only the user is given, and neither in every
\* other case, a password given without a user included.
C12_Credentials ==
    \A i \in 1..Len(log) :
        log[i].kind = "register" =>
            LET tl == TailOf(log[i].script)
                u == task.user.some /\ task.user.v # <<>>
                p == task.password.some /\ task.password.v # <<>>
            IN  /\ (u /\ p) => /\ Carries(tl, UserOpt, task.user.v)
                               /\ Carries(tl, PasswordOpt, task.password.v)
                /\ (u /\ ~p) => /\ Carries(tl, UserOpt, task.user.v)
                                /\ Lacks(tl, PasswordOpt)
                /\ ~u => Lacks(tl, UserOpt) /\ Lacks(tl, PasswordOpt)

C12_Witness ==
    /\ Done /\ call.op = "create" /\ result = "ok"
    /\ task.user = Some(<<DQ>>) /\ task.password = None
    /\ \E i \in 1..Len(log) :
        /\ log[i].kind = "register"
        /\ Carries(TailOf(log[i].script), UserOpt, <<DQ>>)

\* The times a rendering can be performed at.
Clocks == {Clock1, Clock2}

NamesItsDay(t) ==
    \/ t.frequency \notin {"Once", "Weekly"}
    \/ t.frequency = "Once" /\ t.on.kind = "date"
    \/ t.frequency = "Weekly" /\ t.on.kind = "days" /\ Join(<<",">>, t.on.days) # <<>>

RECURSIVE UnDouble(_)
UnDouble(q) ==
    IF q = <<>> THEN <<>>
    ELSE IF Head(q) = DQ /\ Len(q) >= 2 /\ q[2] = DQ
    THEN <<DQ>> \o UnDouble(Tail(Tail(q)))
    ELSE <<Head(q)>> \o UnDouble(Tail(q))

\* Strip the outer double quotes, then undo the doubling; "<bad>" when the
\* text is not wrapped in double quotes.
Unquote(q) ==
    IF Len(q) >= 2 /\ q[1] = DQ /\ q[Len(q)] = DQ
    THEN UnDouble(SubSeq(q, 2, Len(q) - 1))
    ELSE <<"<bad>">>

\* The quoted literal of a script made of a template, a literal and a
\* template (exists, delete, stop).
LiteralOf(script) == SubSeq(script, 2, Len(script) - 1)

\* C14: un-quoting the quoted form of a string over double quote, space,
\* semicolon and a letter gives the string back, for the task name as the
\* scripts carry it and for every other field; and no other string has the
\* same quoted form.
C14_QuoteRoundTrip ==
    /\ \A i \in 1..Len(log) :
        log[i].kind \in {"exists", "unregister", "stop"} =>
            Unquote(LiteralOf(log[i].script)) = task.name
    /\ \A f \in {"name", "script", "python", "description"} :
        Unquote(quote_ps_arg(task[f])) = task[f]
    /\ \A s \in Texts : quote_ps_arg(s) = quote_ps_arg(task.name) => s = task.name

C14_Witness ==
    /\ Done /\ call.op = "exists" /\ task.name = <<DQ, DQ>>
    /\ LiteralOf(log[1].script) = <<DQ, DQ, DQ, DQ, DQ, DQ>>
    /\ Unquote(LiteralOf(log[1].script)) = task.name

\* ---------------------------------------------------------------- C15, C16
\* list_tasks has returned a list.
ListDone == pc = "idle" /\ call.op = "list" /\ result = "ok"
NoActiveFilter ==
    ~Truthy(filters.author) /\ ~Truthy(filters.name_contains) /\ ~filters.only_python
IsNumeric(x) == x.t = "int" \/ (x.t = "str" /\ isdigit(x.v))
NumericOf(x) == IF x.t = "int" THEN x.v ELSE int_of(x.v)

\* The status rule as the claim words it: the integers 0..4 and the five
\* names get one of the five labels, anything else its string form.
C15_StatusAsClaimed(s, out) ==
    IF (s.t = "int" /\ s.v \in 0..4) \/ (s.t = "str" /\ s.v \in StatusKeys)
    THEN out \in StatusLabels
    ELSE out = py_str(s)
\* The same with the strings of digits whose value is 0..4 among the mapped.
C15_StatusAmended(s, out) ==
    IF \/ s.t = "int" /\ s.v \in 0..4
       \/ s.t = "str" /\ s.v \in StatusKeys
       \/ s.t = "str" /\ isdigit(s.v) /\ int_of(s.v) \in 0..4
    THEN out \in StatusLabels
    ELSE out = py_str(s)
C15_ResultAsClaimed(c, out) ==
    IF IsNumeric(c)
    THEN IF NumericOf(c) \in KnownCodes THEN out = known(NumericOf(c))
         ELSE out = <<"Code ">> \o Dec(NumericOf(c))
    ELSE out = py_str(c)

\* C15 (as stated): in what list_tasks returns, a status given as an
\* integer 0..4 or as one of Ready, Running, Disabled, Queued, Unknown is
\* one of the five labels and any other status is its original string form;
\* a numeric last-run result outside the known table is "Code <n>", a known
\* code is its table label, and a non-numeric value is passed through.
C15_Normalisation ==
    ListDone /\ NoActiveFilter =>
        /\ Len(listed) = Len(json_records(stdout))
        /\ \A i \in 1..Len(listed) :
            /\ listed[i].Status.t = "str"
            /\ C15_StatusAsClaimed(json_records(stdout)[i].Status, listed[i].Status.v)
            /\ listed[i].LastRunResult.t = "str"
            /\ C15_ResultAsClaimed(json_records(stdout)[i].LastRunResult,
                                   listed[i].LastRunResult.v)

\* C15 (amended): as above, but a status given as a string of decimal digits
\* whose value is 0..4 is also one of the five labels; only the remaining
\* statuses are passed through as their string form.
C15_NormalisationAmended ==
    ListDone /\ NoActiveFilter =>
        /\ Len(listed) = Len(json_records(stdout))
        /\ \A i \in 1..Len(listed) :
            /\ listed[i].Status.t = "str"
            /\ C15_StatusAmended(json_records(stdout)[i].Status, listed[i].Status.v)
            /\ listed[i].LastRunResult.t = "str"
            /\ C15_ResultAsClaimed(json_records(stdout)[i].LastRunResult,
                                   listed[i].LastRunResult.v)
\* A listing of a task whose status came as the text "3" and was labelled.
C15_Witness ==
    /\ ListDone
    /\ stdout.shape = "object"
    /\ stdout.recs[1].Status = JStr(<<"3">>)
    /\ Len(listed) = 1
    /\ listed[1].Status.v \in StatusLabels

\* The filters as the claim words them; a filter takes part when its
\* argument is supplied and not empty.
C16_Passes(r, f) ==
    /\ Truthy(f.author) => lower(f.author.v) = lower(str_or_empty(r.Author))
    /\ Truthy(f.name_contains) =>
        contains(lower(f.name_contains.v), lower(str_or_empty(r.Name)))
    /\ f.only_python =>
        \E i \in 1..Len(actions_of(r)) : is_python_action(actions_of(r)[i])
C16_Kept == {i \in 1..Len(json_records(stdout)) : C16_Passes(json_records(stdout)[i], filters)}
C16_Nth(j) == CHOOSE i \in C16_Kept : Cardinality({k \in C16_Kept : k <= i}) = j

\* C16: list_tasks returns exactly the payload's records that pass every
\* active filter, in payload order (author equal ignoring case, name_contains
\* a substring ignoring case, only_python needing one action that matches the
\* Python heuristic); without any filter nothing is dropped.
C16_ExactlyThePassingRecords ==
    ListDone =>
        /\ Len(listed) = Cardinality(C16_Kept)
        /\ \A j \in 1..Len(listed) : listed[j] = normalise(json_records(stdout)[C16_Nth(j)])
        /\ filters = NoFilters => Len(listed) = Len(json_records(stdout))
\* A listing filtered by author and by the Python heuristic that kept some
\* records of the payload and dropped others.
C16_Witness ==
    /\ ListDone
    /\ Truthy(filters.author)
    /\ filters.only_python
    /\ listed # <<>>
    /\ Len(listed) < Len(json_records(stdout))

\* ---------------------------------------------------------------- C17, C18
\* C17: in a create call, a failed unregister invocation is the call's last
\* invocation and the call raises TaskError without registering; a register
\* invocation comes only directly after an unregister that exited 0, or
\* directly after create's existence query reported the task absent.
C17_NoRegisterAfterFailedDelete ==
    CreateCall =>
        \A i \in 1..Len(log) :
            /\ (log[i].kind = "unregister" /\ log[i].rc # 0) =>
                /\ i = Len(log)
                /\ Count("register") = 0
                /\ pc = "idle"
                /\ result = "TaskError"
            /\ log[i].kind = "register" =>
                \/ i > 1 /\ log[i - 1].kind = "unregister" /\ log[i - 1].rc = 0
                \/ i = 2 /\ log[1].kind = "exists" /\ log[1].rc # 0
\* create(overwrite=True) found the task, and its delete step failed.
C17_Witness ==
    /\ CreateCall /\ call.overwrite /\ pre.present /\ Done
    /\ result = "TaskError"
    /\ Kinds(log) = <<"exists", "exists", "unregister">>
    /\ log[3].rc # 0

\* C18: whenever create raises TaskNotFoundError, another actor has changed
\* the host's entry during the call, overwrite was set, the call has issued
\* its own existence query (task there) and the delete step's (task gone)
\* and nothing else, and the step that raises leaves the task absent.
C18_NotFoundOnlyByRace ==
    [][(CreateCall' /\ Done' /\ result' = "NotFound") =>
        /\ interfered'
        /\ call'.overwrite
        /\ Kinds(log') = <<"exists", "exists">>
        /\ log'[1].rc = 0 /\ log'[2].rc # 0
        /\ Count("unregister")' = 0 /\ Count("register")' = 0
        /\ (pc = "delete_exists" => ~host'.present)]_vars
\* create(overwrite=True) has raised TaskNotFoundError and the task is gone.
C18_Witness ==
    /\ CreateCall /\ call.overwrite /\ Done
    /\ result = "NotFound"
    /\ interfered
    /\ ~host.present

====
